---- MODULE Spec2Model ----
(***************************************************************************)
(* Bracket order lifecycle of Algorithm.Python/MeanReversionSpyRsiKr.py.   *)
(*                                                                         *)
(* The algorithm's three tracking fields (entry_price and the two order    *)
(* tickets) are driven by two callbacks, OnData and OnOrderEvent.  The     *)
(* order gateway (order book, portfolio holding, order events in flight)   *)
(* is the host platform; it is modelled from the interface the             *)
(* specification gives for it.  Prices and ATR values are in tenths.       *)
(*                                                                         *)
(* The position record of Algorithm.Python/SPYTrendFollowingStrategy.py is *)
(* a second, independent state machine (trend, TrendSpec).                 *)
(*                                                                         *)
(* Indicators/KernelRegression.py is a third one (kr, KrSpec): an          *)
(* indicator object that is updated and reset.                             *)
(***************************************************************************)
EXTENDS Integers, Sequences, FiniteSets, TLC

\* ---------------------------------------------------------------------
\* Bounds of the model
\* ---------------------------------------------------------------------
MaxOrders == 4          \* orders submitted in one behaviour
MaxActive == 3          \* orders active at the gateway at one time
MaxInFlight == 2        \* order events emitted and not yet delivered

\* ---------------------------------------------------------------------
\* Program constants (Initialize) and input domains
\* ---------------------------------------------------------------------
rsi_oversold == 30
rsi_overbought == 70
rsi_exit_level == 50
atr_stop_multiplier == 15       \* 1.5, in tenths
atr_profit_multiplier == 30     \* 3.0, in tenths

None == 0                       \* an absent ticket
Quantities == {0, 10}           \* results of CalculateOrderQuantity (magnitude)
FillPrices == {1000}            \* 100.0
AtrValues == {0, 20}            \* 0.0 and 2.0
RsiValues == {20, 80}
KrValue == 1000
ClosePrices == {990, 1010}

VARIABLES
    entry_price,                  \* self.entry_price
    stop_loss_order_ticket,       \* self.stop_loss_order_ticket (order id or None)
    profit_target_order_ticket,   \* self.profit_target_order_ticket
    orders,                       \* gateway: sequence of orders, the order id is the index
    holdings,                     \* gateway: signed quantity of Portfolio["SPY"]
    events,                       \* order events emitted and not yet delivered
    step,                         \* the last callback executed: its inputs, the
                                  \* state it was called in and the calls it made
    trend,                        \* the SPYTrendFollowingStrategy object
    tick,                         \* what its last OnData call read
    kr,                           \* a KernelRegression object
    feed                          \* what it was fed since its construction or reset

ctlVars == <<entry_price, stop_loss_order_ticket, profit_target_order_ticket>>
gwVars == <<orders, holdings, events>>
mrVars == <<entry_price, stop_loss_order_ticket, profit_target_order_ticket,
            orders, holdings, events, step>>
tfVars == <<trend, tick>>
indVars == <<kr, feed>>
vars == <<entry_price, stop_loss_order_ticket, profit_target_order_ticket,
          orders, holdings, events, step, trend, tick, kr, feed>>

\* ---------------------------------------------------------------------
\* Portfolio and order attributes read by the algorithm
\* ---------------------------------------------------------------------
Invested(h) == h # 0
IsLong(h) == h > 0
IsShort(h) == h < 0

Direction(o) == IF o.qty > 0 THEN "Buy" ELSE "Sell"
IsActive(o) == o.status = "Submitted"
Abs(x) == IF x < 0 THEN -x ELSE x

\* ---------------------------------------------------------------------
\* The algorithm.  A callback is a function from the tracking fields and
\* its inputs to the new tracking fields, the gateway calls it made (reqs,
\* in call order) and the branch it took (path).
\* ---------------------------------------------------------------------
Tracking(ep, sl, pt) ==
    [entry_price |-> ep, stop_loss_order_ticket |-> sl,
     profit_target_order_ticket |-> pt, reqs |-> <<>>, path |-> "none"]

Req(op, id, qty, price) == [op |-> op, id |-> id, qty |-> qty, price |-> price]

Call(s, r) == [s EXCEPT !.reqs = Append(@, r)]

Took(s, p) == [s EXCEPT !.path = p]

Liquidate(s) == Call(s, Req("Liquidate", None, 0, 0))

TicketCancel(s, id) == Call(s, Req("Cancel", id, 0, 0))

\* ticket returned by a submission: the next order id, or None when the
\* gateway refuses the submission (n: the orders submitted so far)
Ticket(n, ok) == IF ok THEN n + 1 ELSE None

\* variant: the profit-target ticket survives a reset
ResetKeepsTarget(s) ==
    [s EXCEPT !.entry_price = 0,
              !.stop_loss_order_ticket = None]

ResetTradeTracking(s) ==
    [s EXCEPT !.entry_price = 0,
              !.stop_loss_order_ticket = None,
              !.profit_target_order_ticket = None]

\* variant: the stop of a long is placed above the entry, of a short below
StopPriceMirrored(direction, price, current_atr) ==
    IF direction = "Buy"
    THEN price + (atr_stop_multiplier * current_atr) \div 10
    ELSE price - (atr_stop_multiplier * current_atr) \div 10

StopPrice(direction, price, current_atr) ==
    IF direction = "Buy"
    THEN price - (atr_stop_multiplier * current_atr) \div 10
    ELSE price + (atr_stop_multiplier * current_atr) \div 10

TargetPrice(direction, price, current_atr) ==
    IF direction = "Buy"
    THEN price + (atr_profit_multiplier * current_atr) \div 10
    ELSE price - (atr_profit_multiplier * current_atr) \div 10

\* variant: a bracket counts as placed as soon as the stop order has a ticket
PlaceStopOnlyChecked(s, direction, quantity, price, current_atr, n, stopOk, limitOk) ==
    IF current_atr <= 0
    THEN Took(Liquidate(s), "atrInvalid")
    ELSE LET close_quantity == IF direction = "Buy" THEN -quantity ELSE quantity
             sl == Ticket(n, stopOk)
             pt == Ticket(IF sl = None THEN n ELSE n + 1, limitOk)
             s1 == Call(s, Req("StopMarketOrder", sl, close_quantity,
                               StopPrice(direction, price, current_atr)))
             s2 == Call(s1, Req("LimitOrder", pt, close_quantity,
                                TargetPrice(direction, price, current_atr)))
             s3 == [s2 EXCEPT !.stop_loss_order_ticket = sl,
                              !.profit_target_order_ticket = pt]
         IN  IF s3.stop_loss_order_ticket = None
             THEN Took(ResetTradeTracking(Liquidate(s3)), "bracketFailed")
             ELSE Took(s3, "bracketed")

\* variant: an ATR of zero is accepted
PlaceZeroAtrAccepted(s, direction, quantity, price, current_atr, n, stopOk, limitOk) ==
    IF current_atr < 0
    THEN Took(Liquidate(s), "atrInvalid")
    ELSE LET close_quantity == IF direction = "Buy" THEN -quantity ELSE quantity
             sl == Ticket(n, stopOk)
             pt == Ticket(IF sl = None THEN n ELSE n + 1, limitOk)
             s1 == Call(s, Req("StopMarketOrder", sl, close_quantity,
                               StopPrice(direction, price, current_atr)))
             s2 == Call(s1, Req("LimitOrder", pt, close_quantity,
                                TargetPrice(direction, price, current_atr)))
             s3 == [s2 EXCEPT !.stop_loss_order_ticket = sl,
                              !.profit_target_order_ticket = pt]
         IN  IF s3.stop_loss_order_ticket = None
                \/ s3.profit_target_order_ticket = None
             THEN Took(ResetTradeTracking(Liquidate(s3)), "bracketFailed")
             ELSE Took(s3, "bracketed")

\* variant: the closing orders carry the sign of the entry
PlaceEntrySigned(s, direction, quantity, price, current_atr, n, stopOk, limitOk) ==
    IF current_atr <= 0
    THEN Took(Liquidate(s), "atrInvalid")
    ELSE LET close_quantity == IF direction = "Buy" THEN quantity ELSE -quantity
             sl == Ticket(n, stopOk)
             pt == Ticket(IF sl = None THEN n ELSE n + 1, limitOk)
             s1 == Call(s, Req("StopMarketOrder", sl, close_quantity,
                               StopPrice(direction, price, current_atr)))
             s2 == Call(s1, Req("LimitOrder", pt, close_quantity,
                                TargetPrice(direction, price, current_atr)))
             s3 == [s2 EXCEPT !.stop_loss_order_ticket = sl,
                              !.profit_target_order_ticket = pt]
         IN  IF s3.stop_loss_order_ticket = None
                \/ s3.profit_target_order_ticket = None
             THEN Took(ResetTradeTracking(Liquidate(s3)), "bracketFailed")
             ELSE Took(s3, "bracketed")

\* n: the orders submitted so far; stopOk, limitOk: whether the gateway
\* returns a ticket for the stop and for the limit order
PlaceStopLossAndProfitTarget(s, direction, quantity, price, current_atr, n, stopOk, limitOk) ==
    IF current_atr <= 0
    THEN Took(Liquidate(s), "atrInvalid")
    ELSE LET close_quantity == IF direction = "Buy" THEN -quantity ELSE quantity
             sl == Ticket(n, stopOk)
             pt == Ticket(IF sl = None THEN n ELSE n + 1, limitOk)
             s1 == Call(s, Req("StopMarketOrder", sl, close_quantity,
                               StopPrice(direction, price, current_atr)))
             s2 == Call(s1, Req("LimitOrder", pt, close_quantity,
                                TargetPrice(direction, price, current_atr)))
             s3 == [s2 EXCEPT !.stop_loss_order_ticket = sl,
                              !.profit_target_order_ticket = pt]
         IN  IF s3.stop_loss_order_ticket = None
                \/ s3.profit_target_order_ticket = None
             THEN Took(ResetTradeTracking(Liquidate(s3)), "bracketFailed")
             ELSE Took(s3, "bracketed")

\* variant: the legs are canceled and the tickets kept
CancelKeepsTickets(s, ords) ==
    LET sl == s.stop_loss_order_ticket
        pt == s.profit_target_order_ticket
        s1 == IF sl # None /\ IsActive(ords[sl]) THEN TicketCancel(s, sl) ELSE s
        s2 == IF pt # None /\ IsActive(ords[pt]) THEN TicketCancel(s1, pt) ELSE s1
    IN  s2

CancelStopLossAndProfitTarget(s, ords) ==
    LET sl == s.stop_loss_order_ticket
        pt == s.profit_target_order_ticket
        s1 == IF sl # None /\ IsActive(ords[sl]) THEN TicketCancel(s, sl) ELSE s
        s2 == IF pt # None /\ IsActive(ords[pt]) THEN TicketCancel(s1, pt) ELSE s1
    IN  ResetTradeTracking(s2)

\* variant: the tracking is reset before the other leg is canceled
FilledResetsBeforeCancel(s, ev, ords, h, atrReady, current_atr, stopOk, limitOk) ==
    LET order == ords[ev.OrderId]
    IN  IF /\ order.type = "Market"
           /\ s.stop_loss_order_ticket = None
           /\ s.profit_target_order_ticket = None
        THEN IF \/ Direction(order) = "Buy" /\ IsLong(h)
                \/ Direction(order) = "Sell" /\ IsShort(h)
             THEN LET s1 == [s EXCEPT !.entry_price = ev.FillPrice]
                      fill_quantity == ev.AbsoluteFillQuantity
                  IN  IF atrReady
                      THEN PlaceStopLossAndProfitTarget(s1, Direction(order),
                               fill_quantity, s1.entry_price, current_atr,
                               Len(ords), stopOk, limitOk)
                      ELSE Took(Liquidate(s1), "atrNotReady")
             ELSE s
        ELSE IF /\ s.stop_loss_order_ticket # None
                /\ ev.OrderId = s.stop_loss_order_ticket
        THEN LET s1 == ResetTradeTracking(s)
                 s2 == IF s1.profit_target_order_ticket # None
                       THEN TicketCancel(s1, s1.profit_target_order_ticket)
                       ELSE s1
             IN  Took(s2, "stopFilled")
        ELSE IF /\ s.profit_target_order_ticket # None
                /\ ev.OrderId = s.profit_target_order_ticket
        THEN LET s1 == ResetTradeTracking(s)
                 s2 == IF s1.stop_loss_order_ticket # None
                       THEN TicketCancel(s1, s1.stop_loss_order_ticket)
                       ELSE s1
             IN  Took(s2, "targetFilled")
        ELSE s

\* variant: the entry branch does not look at the tickets
FilledIgnoresTickets(s, ev, ords, h, atrReady, current_atr, stopOk, limitOk) ==
    LET order == ords[ev.OrderId]
    IN  IF order.type = "Market"
        THEN IF \/ Direction(order) = "Buy" /\ IsLong(h)
                \/ Direction(order) = "Sell" /\ IsShort(h)
             THEN LET s1 == [s EXCEPT !.entry_price = ev.FillPrice]
                      fill_quantity == ev.AbsoluteFillQuantity
                  IN  IF atrReady
                      THEN PlaceStopLossAndProfitTarget(s1, Direction(order),
                               fill_quantity, s1.entry_price, current_atr,
                               Len(ords), stopOk, limitOk)
                      ELSE Took(Liquidate(s1), "atrNotReady")
             ELSE s
        ELSE IF /\ s.stop_loss_order_ticket # None
                /\ ev.OrderId = s.stop_loss_order_ticket
        THEN LET s1 == IF s.profit_target_order_ticket # None
                       THEN TicketCancel(s, s.profit_target_order_ticket)
                       ELSE s
             IN  Took(ResetTradeTracking(s1), "stopFilled")
        ELSE IF /\ s.profit_target_order_ticket # None
                /\ ev.OrderId = s.profit_target_order_ticket
        THEN LET s1 == IF s.stop_loss_order_ticket # None
                       THEN TicketCancel(s, s.stop_loss_order_ticket)
                       ELSE s
             IN  Took(ResetTradeTracking(s1), "targetFilled")
        ELSE s

OnOrderEventFilled(s, ev, ords, h, atrReady, current_atr, stopOk, limitOk) ==
    LET order == ords[ev.OrderId]
    IN  IF /\ order.type = "Market"
           /\ s.stop_loss_order_ticket = None
           /\ s.profit_target_order_ticket = None
        THEN IF \/ Direction(order) = "Buy" /\ IsLong(h)
                \/ Direction(order) = "Sell" /\ IsShort(h)
             THEN LET s1 == [s EXCEPT !.entry_price = ev.FillPrice]
                      fill_quantity == ev.AbsoluteFillQuantity
                  IN  IF atrReady
                      THEN PlaceStopLossAndProfitTarget(s1, Direction(order),
                               fill_quantity, s1.entry_price, current_atr,
                               Len(ords), stopOk, limitOk)
                      ELSE Took(Liquidate(s1), "atrNotReady")
             ELSE s
        ELSE IF /\ s.stop_loss_order_ticket # None
                /\ ev.OrderId = s.stop_loss_order_ticket
        THEN LET s1 == IF s.profit_target_order_ticket # None
                       THEN TicketCancel(s, s.profit_target_order_ticket)
                       ELSE s
             IN  Took(ResetTradeTracking(s1), "stopFilled")
        ELSE IF /\ s.profit_target_order_ticket # None
                /\ ev.OrderId = s.profit_target_order_ticket
        THEN LET s1 == IF s.stop_loss_order_ticket # None
                       THEN TicketCancel(s, s.stop_loss_order_ticket)
                       ELSE s
             IN  Took(ResetTradeTracking(s1), "targetFilled")
        ELSE s

\* variant: a canceled leg resets the whole tracking, invested or not
CanceledAlwaysResets(s, ev, h) ==
    IF ev.OrderId \in {s.stop_loss_order_ticket, s.profit_target_order_ticket}
       \/ ~Invested(h)
    THEN Took(ResetTradeTracking(s), "canceledFlat")
    ELSE s

OnOrderEventCanceled(s, ev, h) ==
    LET s1 == IF /\ s.stop_loss_order_ticket # None
                 /\ ev.OrderId = s.stop_loss_order_ticket
              THEN Took([s EXCEPT !.stop_loss_order_ticket = None], "legCanceled")
              ELSE s
        s2 == IF /\ s1.profit_target_order_ticket # None
                 /\ ev.OrderId = s1.profit_target_order_ticket
              THEN Took([s1 EXCEPT !.profit_target_order_ticket = None], "legCanceled")
              ELSE s1
    IN  IF ~Invested(h) THEN Took(ResetTradeTracking(s2), "canceledFlat") ELSE s2

\* variant: a failed market order resets the tracking only while invested
OtherResetsWhileInvested(s, ev, ords, h) ==
    IF ords[ev.OrderId].type = "Market" /\ Invested(h)
    THEN Took(ResetTradeTracking(s), "marketFailedFlat")
    ELSE s

OnOrderEventOther(s, ev, ords, h) ==
    IF ords[ev.OrderId].type = "Market" /\ ~Invested(h)
    THEN Took(ResetTradeTracking(s), "marketFailedFlat")
    ELSE s

OnOrderEvent(s, ev, ords, h, atrReady, current_atr, stopOk, limitOk) ==
    IF ev.Status = "Filled"
    THEN OnOrderEventFilled(s, ev, ords, h, atrReady, current_atr, stopOk, limitOk)
    ELSE IF ev.Status = "Canceled"
    THEN OnOrderEventCanceled(s, ev, h)
    ELSE IF ev.Status \in {"Invalid", "CancelPending", "Error"}
    THEN OnOrderEventOther(s, ev, ords, h)
    ELSE s

\* ready: not warming up, the slice holds SPY and the three indicators are
\* ready; quantity: magnitude returned by CalculateOrderQuantity; entryOk:
\* whether the gateway accepts the market order
OnData(s, ready, current_rsi, current_price, current_kr, quantity, entryOk, ords, h) ==
    IF ~ready THEN s
    ELSE IF ~Invested(h)
    THEN IF current_rsi < rsi_oversold /\ current_price < current_kr
         THEN IF quantity # 0
              THEN Took(Call(s, Req("MarketOrder", Ticket(Len(ords), entryOk),
                                    quantity, 0)), "enterLong")
              ELSE s
         ELSE IF current_rsi > rsi_overbought /\ current_price > current_kr
         THEN IF -quantity # 0
              THEN Took(Call(s, Req("MarketOrder", Ticket(Len(ords), entryOk),
                                    -quantity, 0)), "enterShort")
              ELSE s
         ELSE s
    ELSE IF IsLong(h) /\ current_rsi > rsi_exit_level
    THEN Took(CancelStopLossAndProfitTarget(Liquidate(s), ords), "rsiExit")
    ELSE IF IsShort(h) /\ current_rsi < rsi_exit_level
    THEN Took(CancelStopLossAndProfitTarget(Liquidate(s), ords), "rsiExit")
    ELSE s

\* ---------------------------------------------------------------------
\* The order gateway.  The book is the sequence of the orders submitted;
\* the id of an order is its index.
\* ---------------------------------------------------------------------

\* group: the id of the first order of the submission the order belongs to
\* (the two legs of a bracket pair share it); exited: the order was tracked
\* by a ticket when an RSI exit was processed; stale: the order was in the
\* book when an entry fill could not be bracketed
Order(type, qty, price, tag, group) ==
    [type |-> type, qty |-> qty, price |-> price, tag |-> tag,
     status |-> "Submitted", cancelReq |-> FALSE, group |-> group,
     exited |-> FALSE, stale |-> FALSE]

OrderIds(ords) == 1..Len(ords)

Active(ords) == {i \in OrderIds(ords) : IsActive(ords[i])}

\* An order is closed once it is no longer active and its event has been
\* delivered.  The book forgets the attributes of the orders of a
\* submission once all of them are closed; keep is the order of the event
\* delivered last, which stays.
Closed(ords, evs, i) ==
    /\ ~IsActive(ords[i])
    /\ \A e \in evs : e.OrderId # i

Archived ==
    [type |-> "Archived", qty |-> 0, price |-> 0, tag |-> "archived",
     status |-> "Archived", cancelReq |-> FALSE, group |-> 0,
     exited |-> FALSE, stale |-> FALSE]

Archive(ords, evs, keep) ==
    [i \in OrderIds(ords) |->
        IF \A j \in OrderIds(ords) :
              ords[j].group = ords[i].group => Closed(ords, evs, j) /\ j # keep
        THEN Archived ELSE ords[i]]

\* a liquidation request submits a market order that closes the holding,
\* unless the holding is flat
Liquidates(ords, h) == h # 0

\* the effect of one gateway call on the book; h is the holding and prev the
\* call made just before it
ApplyReq(ords, r, h, prev) ==
    IF r.op = "MarketOrder"
    THEN IF r.id = None THEN ords
         ELSE Append(ords, Order("Market", r.qty, 0, "entry", r.id))
    ELSE IF r.op = "StopMarketOrder"
    THEN IF r.id = None THEN ords
         ELSE Append(ords, Order("StopMarket", r.qty, r.price, "ATR SL", r.id))
    ELSE IF r.op = "LimitOrder"
    THEN IF r.id = None THEN ords
         ELSE Append(ords, Order("Limit", r.qty, r.price, "ATR PT",
                                 IF prev.op = "StopMarketOrder" /\ prev.id # None
                                 THEN prev.id ELSE r.id))
    ELSE IF r.op = "Cancel"
    THEN IF IsActive(ords[r.id])
         THEN [ords EXCEPT ![r.id].cancelReq = TRUE]
         ELSE ords
    ELSE IF r.op = "Liquidate"
    THEN IF ~Liquidates(ords, h) THEN ords
         ELSE Append(ords, Order("Market", -h, 0, "liquidate", Len(ords) + 1))
    ELSE ords

RECURSIVE ApplyReqs(_, _, _, _)
ApplyReqs(ords, reqs, h, prev) ==
    IF reqs = <<>> THEN ords
    ELSE ApplyReqs(ApplyReq(ords, Head(reqs), h, prev), Tail(reqs), h, Head(reqs))

\* number of orders a sequence of gateway calls adds to the book
Submitted(ords, reqs, h) ==
    Cardinality({k \in 1..Len(reqs) :
        \/ reqs[k].op \in {"MarketOrder", "StopMarketOrder", "LimitOrder"}
           /\ reqs[k].id # None
        \/ reqs[k].op = "Liquidate" /\ Liquidates(ords, h)})

OrderEvent(id, status, price, qty) ==
    [OrderId |-> id, Status |-> status, FillPrice |-> price,
     AbsoluteFillQuantity |-> qty]

NoEvent == OrderEvent(None, "none", 0, 0)

NoReq == Req("none", None, 0, 0)

\* ---------------------------------------------------------------------
\* Algorithm.Python/SPYTrendFollowingStrategy.py.  The strategy keeps its
\* own record of the position (is_invested, position_size, the stop prices,
\* the day counters) and changes it in OnData only.  Prices, ATR and
\* indicator values are in tenths, position sizes and the drawdown in units
\* of 0.0001.
\* ---------------------------------------------------------------------
WindowSize == 20                \* RollingWindow[float](20)
Unit == 10000                   \* position size 1.0
max_hold_days == 90
no_new_high_days == 30
scaling_days == 5
additional_size == 1000         \* 0.1
initial_stop_multiplier == 2
trailing_stop_multiplier == 3

TrendCloses == {1000, 1100}     \* 100.0 and 110.0
TrendAtrValues == {20}          \* 2.0
FastEmaValues == {90, 110}      \* below and above the slow EMA
SlowEma == 100
PreviousFastEma == 100
AdxValues == {30}
VixValues == {20}
PortfolioValues == {1000}

Min(a, b) == IF a < b THEN a ELSE b

SetMax(S) == CHOOSE x \in S : \A y \in S : y <= x

\* RollingWindow: Count is the number of values added, up to the size; for
\* each price, age is the number of values added after it was last added
\* (the size when it is no longer, or was never, in the window)
EmptyWindow == [Count |-> 0, age |-> [v \in TrendCloses |-> WindowSize]]

WindowAdd(w, v) ==
    [Count |-> Min(w.Count + 1, WindowSize),
     age |-> [u \in TrendCloses |->
                 IF u = v THEN 0 ELSE Min(w.age[u] + 1, WindowSize)]]

WindowIsReady(w) == w.Count >= WindowSize

WindowValues(w) == {v \in TrendCloses : w.age[v] < WindowSize}

SetHoldings(s, size) == [s EXCEPT !.reqs = Append(@, <<"SetHoldings", size>>)]

TrendLiquidate(s) == [s EXCEPT !.reqs = Append(@, <<"Liquidate", 0>>)]

\* three quarters of a size, rounded up to the unit
ThreeQuarters(x) == x - (x \div 4)

Half(x) == x \div 2

SevenTenths(x) == (x * 7) \div 10

\* variant: the exit leaves the trailing stop of the closed position
ExecuteExitKeepsStop(s) ==
    IF ~s.is_invested THEN s
    ELSE [TrendLiquidate(s) EXCEPT !.is_invested = FALSE,
                                   !.position_size = 0,
                                   !.initial_stop_price = 0,
                                   !.scaled_in = FALSE]

ExecuteExit(s) ==
    IF ~s.is_invested THEN s
    ELSE [TrendLiquidate(s) EXCEPT !.is_invested = FALSE,
                                   !.position_size = 0,
                                   !.initial_stop_price = 0,
                                   !.trailing_stop_price = 0,
                                   !.scaled_in = FALSE]

ExecuteEntry(s, position_size, current_price, atr_value) ==
    IF s.is_invested THEN s
    ELSE LET s1 == [s EXCEPT
                        !.initial_stop_price =
                            current_price - initial_stop_multiplier * atr_value,
                        !.trailing_stop_price =
                            current_price - initial_stop_multiplier * atr_value,
                        !.entry_price = current_price,
                        !.high_since_entry = current_price,
                        !.days_since_entry = 0,
                        !.days_since_new_high = 0,
                        !.scaled_in = FALSE]
         IN  [SetHoldings(s1, position_size) EXCEPT
                  !.position_size = position_size,
                  !.is_invested = TRUE]

\* atr_90_ready, atr_90_avg: whether the window of the last 90 ATR values is
\* full, and its mean
CalculatePositionSize(s, adx_value, vix_value, atr_90_ready, current_atr, atr_90_avg) ==
    LET b0 == IF adx_value > 25 THEN (8 * Unit) \div 10 ELSE (5 * Unit) \div 10
        b1 == IF vix_value > 30 THEN Half(b0) ELSE b0
        b2 == IF atr_90_ready /\ current_atr > 2 * atr_90_avg
              THEN SevenTenths(b1) ELSE b1
        b3 == IF s.strategy_drawdown > (10 * Unit) \div 100 THEN Half(b2) ELSE b2
    IN  b3

CheckEntrySignals(s, in) ==
    IF s.strategy_drawdown > (15 * Unit) \div 100 THEN s
    ELSE LET ema_crossover == in.fast_ema > in.slow_ema
                              /\ in.fast_ema > in.fast_previous
             strong_trend == in.adx > 20
         IN  IF ema_crossover /\ strong_trend
             THEN ExecuteEntry(s, CalculatePositionSize(s, in.adx, in.vix,
                                      in.atr_90_ready, in.atr, in.atr_90_avg),
                               in.close, in.atr)
             ELSE s

\* variant: the loss of momentum is looked at before the hold period
CheckExitMomentumFirst(s, fast_ema, slow_ema, current_price) ==
    LET s1 == [s EXCEPT !.days_since_entry = @ + 1]
        s2 == IF current_price > s1.high_since_entry
              THEN [s1 EXCEPT !.high_since_entry = current_price,
                              !.days_since_new_high = 0]
              ELSE [s1 EXCEPT !.days_since_new_high = @ + 1]
        ema_crossover_exit == fast_ema < slow_ema
        max_hold_period_exit == s2.days_since_entry > max_hold_days
        no_new_high_exit == s2.days_since_new_high > no_new_high_days
    IN  IF ema_crossover_exit THEN ExecuteExit(s2)
        ELSE IF no_new_high_exit
        THEN IF s2.position_size > 0
             THEN [SetHoldings(s2, ThreeQuarters(s2.position_size)) EXCEPT
                       !.position_size = ThreeQuarters(s2.position_size)]
             ELSE s2
        ELSE IF max_hold_period_exit THEN ExecuteExit(s2)
        ELSE s2

CheckExitSignals(s, fast_ema, slow_ema, current_price) ==
    LET s1 == [s EXCEPT !.days_since_entry = @ + 1]
        s2 == IF current_price > s1.high_since_entry
              THEN [s1 EXCEPT !.high_since_entry = current_price,
                              !.days_since_new_high = 0]
              ELSE [s1 EXCEPT !.days_since_new_high = @ + 1]
        ema_crossover_exit == fast_ema < slow_ema
        max_hold_period_exit == s2.days_since_entry > max_hold_days
        no_new_high_exit == s2.days_since_new_high > no_new_high_days
    IN  IF ema_crossover_exit THEN ExecuteExit(s2)
        ELSE IF max_hold_period_exit THEN ExecuteExit(s2)
        ELSE IF no_new_high_exit
        THEN IF s2.position_size > 0
             THEN [SetHoldings(s2, ThreeQuarters(s2.position_size)) EXCEPT
                       !.position_size = ThreeQuarters(s2.position_size)]
             ELSE s2
        ELSE s2

\* variant: the trailing stop follows the price in both directions
UpdateStopFollowsPrice(s, current_price, atr_value) ==
    IF ~s.is_invested THEN s
    ELSE LET new_stop == current_price - trailing_stop_multiplier * atr_value
             s1 == IF current_price > s.high_since_entry
                   THEN [s EXCEPT !.high_since_entry = current_price,
                                  !.trailing_stop_price = new_stop]
                   ELSE [s EXCEPT !.trailing_stop_price = new_stop]
         IN  IF current_price < s1.trailing_stop_price
             THEN ExecuteExit(s1)
             ELSE s1

UpdateStopLevels(s, current_price, atr_value) ==
    IF ~s.is_invested THEN s
    ELSE LET new_stop == current_price - trailing_stop_multiplier * atr_value
             s1 == IF current_price > s.high_since_entry
                   THEN [s EXCEPT !.high_since_entry = current_price,
                                  !.trailing_stop_price =
                                      IF new_stop > @ THEN new_stop ELSE @]
                   ELSE s
         IN  IF current_price < s1.trailing_stop_price
             THEN ExecuteExit(s1)
             ELSE s1

CheckScalingOpportunity(s, current_price) ==
    IF ~s.is_invested \/ s.scaled_in \/ s.position_size >= Unit THEN s
    ELSE IF ~WindowIsReady(s.highest_price_20d) THEN s
    ELSE LET high_20d == SetMax(WindowValues(s.highest_price_20d))
         IN  IF current_price > high_20d /\ s.days_since_entry > scaling_days
             THEN LET new_position == Min(Unit, s.position_size + additional_size)
                  IN  [SetHoldings(s, new_position) EXCEPT
                           !.position_size = new_position,
                           !.scaled_in = TRUE]
             ELSE s

\* in: what the call reads (has_data: not warming up and the slice holds SPY
\* and VIX; ready: the six indicators are ready)
TrendOnData(s, in) ==
    IF ~in.has_data THEN s
    ELSE LET s1 == [s EXCEPT !.highest_price_20d = WindowAdd(@, in.close)]
             s2 == IF in.value > s1.peak_value
                   THEN [s1 EXCEPT !.peak_value = in.value]
                   ELSE s1
             s3 == IF s2.peak_value > 0
                   THEN [s2 EXCEPT !.strategy_drawdown =
                            ((s2.peak_value - in.value) * Unit) \div s2.peak_value]
                   ELSE s2
         IN  IF ~in.ready THEN s3
             ELSE IF ~s3.is_invested THEN CheckEntrySignals(s3, in)
             ELSE CheckScalingOpportunity(
                      UpdateStopLevels(
                          CheckExitSignals(s3, in.fast_ema, in.slow_ema, in.close),
                          in.close, in.atr),
                      in.close)

\* the strategy after Initialize
TrendInitialize ==
    [high_since_entry |-> 0, entry_price |-> 0, days_since_entry |-> 0,
     days_since_new_high |-> 0, highest_price_20d |-> EmptyWindow,
     is_invested |-> FALSE, position_size |-> 0, initial_stop_price |-> 0,
     trailing_stop_price |-> 0, strategy_drawdown |-> 0, peak_value |-> 0,
     scaled_in |-> FALSE, reqs |-> <<>>]

\* what an OnData call can read; an input the call does not read is fixed,
\* and the indicators, ready when the position was entered, stay ready
IdleInputs ==
    [has_data |-> FALSE, ready |-> FALSE, close |-> 1000, atr |-> 20,
     fast_ema |-> 90, slow_ema |-> SlowEma, fast_previous |-> PreviousFastEma,
     adx |-> 30, vix |-> 20, value |-> 1000,
     atr_90_ready |-> FALSE, atr_90_avg |-> 20]

\* ---------------------------------------------------------------------
\* Indicators/KernelRegression.py.  A number is a record of its type and
\* its magnitude (in tenths); an input data point is [value, time].  The
\* estimate is kept as the term it is computed from: the distances u of the
\* stored indices from the current one, the bandwidth and the stored
\* values.
\* ---------------------------------------------------------------------
kr_period == 80
kr_bandwidth == 15

Decimal(x) == [type |-> "decimal", num |-> x]

AsFloat(x) == [type |-> "float", num |-> x]

\* float(v): a float of the same magnitude, whatever the type of v
float(v) == AsFloat(v.num)

\* deque(maxlen=maxlen).append(x): a full deque drops its oldest element
DequeAppend(d, maxlen, x) ==
    IF Len(d) = maxlen THEN Append(Tail(d), x) ELSE Append(d, x)

\* __init__ raises ValueError
KernelRegressionRaises(period, bandwidth) == period < 1 \/ bandwidth <= 0

\* the object __init__ leaves when it does not raise
KernelRegression(period, bandwidth) ==
    [period |-> period, bandwidth |-> bandwidth, warm_up_period |-> period,
     value |-> AsFloat(0), _window |-> <<>>, _indices |-> <<>>,
     _current_index |-> 0, current |-> [value |-> AsFloat(0), time |-> 0]]

is_ready(self) == Len(self._window) = self.period

\* np.sum(weights) > 1e-10: a weight is exp(-0.5 * u^2) > 0, and 1 where u = 0
SumWeightsPositive(u) == \E i \in 1..Len(u) : u[i] = 0

\* the Nadaraya-Watson estimate over the stored values
KernelEstimate(self) ==
    LET current_index == self._indices[Len(self._indices)]
        u == [i \in 1..Len(self._indices) |-> self._indices[i] - current_index]
    IN  IF SumWeightsPositive(u)
        THEN [type |-> "float", u |-> u, h |-> self.bandwidth,
              y |-> [i \in 1..Len(self._window) |-> self._window[i].num]]
        ELSE self._window[Len(self._window)]

\* update: the object after the call, and the value returned
update(self, input_data) ==
    LET s1 == [self EXCEPT
                   !._window = DequeAppend(@, self.period, float(input_data.value)),
                   !._indices = DequeAppend(@, self.period, self._current_index),
                   !._current_index = @ + 1]
    IN  IF ~is_ready(s1)
        THEN [self |-> [s1 EXCEPT !.current.time = input_data.time],
              ret |-> FALSE]
        ELSE [self |-> [s1 EXCEPT !.value = KernelEstimate(s1),
                                  !.current = [value |-> KernelEstimate(s1),
                                               time |-> input_data.time]],
              ret |-> TRUE]

\* variant: the stored values survive the reset
resetKeepsWindow(self) ==
    [self EXCEPT !._indices = <<>>,
                 !._current_index = 0,
                 !.value = AsFloat(0),
                 !.current = [value |-> AsFloat(0), time |-> 0]]

\* reset; the reset of the base indicator puts `current` back
reset(self) ==
    [self EXCEPT !._window = <<>>,
                 !._indices = <<>>,
                 !._current_index = 0,
                 !.value = AsFloat(0),
                 !.current = [value |-> AsFloat(0), time |-> 0]]

\* the results of feeding seq to the indicator, one after the other
RECURSIVE UpdateResults(_, _)
UpdateResults(self, seq) ==
    IF seq = <<>> THEN <<>>
    ELSE LET r == update(self, Head(seq))
         IN  <<[ret |-> r.ret, value |-> r.self.value]>>
                 \o UpdateResults(r.self, Tail(seq))

\* nothing supplied yet
NoFeed == [supplied |-> <<>>, op |-> "init", ret |-> FALSE, was_reset |-> FALSE]

\* ---------------------------------------------------------------------
\* State machine
\* ---------------------------------------------------------------------
Self == Tracking(entry_price, stop_loss_order_ticket, profit_target_order_ticket)

\* an entry order was submitted and its outcome has not been processed yet
EntryPending ==
    \E i \in OrderIds(orders) :
        /\ orders[i].tag = "entry"
        /\ \/ IsActive(orders[i])
           \/ \E e \in events : e.OrderId = i

\* the conditions under which OnOrderEvent takes ev for an entry fill
\* (the two nested conditions of its first branch)
EntryFillGuard(s, ev, ords, h) ==
    /\ ev.Status = "Filled"
    /\ ords[ev.OrderId].type = "Market"
    /\ s.stop_loss_order_ticket = None
    /\ s.profit_target_order_ticket = None
    /\ \/ Direction(ords[ev.OrderId]) = "Buy" /\ IsLong(h)
       \/ Direction(ords[ev.OrderId]) = "Sell" /\ IsShort(h)

NoInputs == [atrReady |-> FALSE, atr |-> 0, stopOk |-> TRUE, limitOk |-> TRUE]

\* the record of a callback: the event and inputs it was called with, the
\* state it was called in (pre: the tracking fields; entryFill, entryPending;
\* stale: whether the event's order was stale), the events left in flight
\* when it returned, its gateway calls and branch
Log(h, ev, in, s) ==
    [handler |-> h, ev |-> ev, in |-> in,
     pre |-> <<entry_price, stop_loss_order_ticket, profit_target_order_ticket>>,
     entryFill |-> ev # NoEvent /\ EntryFillGuard(Self, ev, orders, holdings),
     entryPending |-> EntryPending,
     stale |-> ev # NoEvent /\ orders[ev.OrderId].stale,
     inflight |-> events \ {ev},
     reqs |-> s.reqs, path |-> s.path]

\* the two algorithms after Initialize
AlgorithmsInit ==
    /\ entry_price = 0
    /\ stop_loss_order_ticket = None
    /\ profit_target_order_ticket = None
    /\ orders = <<>>
    /\ holdings = 0
    /\ events = {}
    /\ step = [handler |-> "Initialize", ev |-> NoEvent, in |-> NoInputs,
               pre |-> <<0, None, None>>, entryFill |-> FALSE,
               entryPending |-> FALSE, stale |-> FALSE, inflight |-> {},
               reqs |-> <<>>, path |-> "none"]
    /\ trend = TrendInitialize
    /\ tick = IdleInputs

\* MeanReversionSpyRsiKr constructs its indicator as KR(80, 15)
Init ==
    /\ AlgorithmsInit
    /\ kr = KernelRegression(kr_period, kr_bandwidth)
    /\ feed = NoFeed

\* the callback's result s takes effect: the tracking fields are assigned
\* and the gateway receives the calls
WithinBounds(reqs) ==
    /\ Len(orders) + Submitted(orders, reqs, holdings) <= MaxOrders
    /\ Cardinality(Active(orders)) + Submitted(orders, reqs, holdings) <= MaxActive

\* the orders the tickets referred to when an RSI exit was processed
MarkExited(ords, s) ==
    [i \in OrderIds(ords) |->
        IF s.path = "rsiExit"
           /\ i \in {stop_loss_order_ticket, profit_target_order_ticket}
        THEN [ords[i] EXCEPT !.exited = TRUE]
        ELSE ords[i]]

\* the orders in the book when an entry fill is not bracketed
MarkStale(ords, s) ==
    [i \in OrderIds(ords) |->
        IF s.path \in {"atrNotReady", "atrInvalid", "bracketFailed"}
        THEN [ords[i] EXCEPT !.stale = TRUE]
        ELSE ords[i]]

Effect(h, ev, in, s) ==
    /\ entry_price' = s.entry_price
    /\ stop_loss_order_ticket' = s.stop_loss_order_ticket
    /\ profit_target_order_ticket' = s.profit_target_order_ticket
    /\ orders' = Archive(MarkStale(MarkExited(ApplyReqs(orders, s.reqs, holdings,
                                                          NoReq), s), s),
                          events \ {ev}, ev.OrderId)
    /\ step' = Log(h, ev, in, s)
    /\ UNCHANGED <<tfVars, indVars>>

Commit(h, ev, in, s) == WithinBounds(s.reqs) /\ Effect(h, ev, in, s)

\* inputs of OnData; an input the call cannot read is fixed
DataInputs ==
    {in \in [ready : BOOLEAN, rsi : RsiValues, close : ClosePrices,
             quantity : Quantities, entryOk : BOOLEAN] :
        /\ ~in.ready => in.rsi = 20 /\ in.close = 990 /\ in.quantity = 0
        /\ in.quantity = 0 => in.entryOk}

\* inputs of OnOrderEvent: the ATR and the gateway's answers to the two
\* bracket submissions; an input the call cannot read is fixed
EventInputs ==
    {in \in [atrReady : BOOLEAN, atr : AtrValues,
             stopOk : BOOLEAN, limitOk : BOOLEAN] :
        /\ ~in.atrReady => in.atr = 0
        /\ in.atr <= 0 => in.stopOk /\ in.limitOk}

\* one OnData call
Tick(in) ==
    /\ Commit("OnData", NoEvent, NoInputs,
              OnData(Self, in.ready, in.rsi, in.close, KrValue, in.quantity,
                     in.entryOk, orders, holdings))
    /\ UNCHANGED <<holdings, events>>

DataTick == \E in \in DataInputs : Tick(in)

\* the inputs OnOrderEvent can be called with for ev
InputsFor(ev) ==
    {in \in EventInputs :
        ~EntryFillGuard(Self, ev, orders, holdings) => in = NoInputs}

\* one OnOrderEvent call, for an event in flight
DeliverEvent(ev, in) ==
    /\ Commit("OnOrderEvent", ev, in,
              OnOrderEvent(Self, ev, orders, holdings,
                           in.atrReady, in.atr, in.stopOk, in.limitOk))
    /\ events' = events \ {ev}
    /\ UNCHANGED holdings

Deliver ==
    \E ev \in events : \E in \in InputsFor(ev) : DeliverEvent(ev, in)

\* the gateway fills an active order
FillOrder(id, p) ==
    /\ Cardinality(events) < MaxInFlight
    /\ IsActive(orders[id])
    /\ orders' = [orders EXCEPT ![id].status = "Filled"]
    /\ holdings' = holdings + orders[id].qty
    /\ events' = events \cup
          {OrderEvent(id, "Filled",
                      IF orders[id].type = "Market" THEN p ELSE orders[id].price,
                      Abs(orders[id].qty))}
    /\ UNCHANGED <<ctlVars, step, tfVars, indVars>>

Fill == \E id \in OrderIds(orders), p \in FillPrices : FillOrder(id, p)

\* an active order is canceled; a liquidation is left to fill
CancelActive(id) ==
    /\ Cardinality(events) < MaxInFlight
    /\ IsActive(orders[id])
    /\ orders[id].tag # "liquidate"
    /\ orders' = [orders EXCEPT ![id].status = "Canceled"]
    /\ events' = events \cup {OrderEvent(id, "Canceled", 0, 0)}
    /\ UNCHANGED <<ctlVars, holdings, step, tfVars, indVars>>

\* ... on the algorithm's request or from outside
CancelOrder == \E id \in OrderIds(orders) : CancelActive(id)

\* the gateway rejects an active order; a liquidation is left to fill
Reject ==
    \E id \in OrderIds(orders) :
        /\ Cardinality(events) < MaxInFlight
        /\ IsActive(orders[id])
        /\ orders[id].tag # "liquidate"
        /\ orders' = [orders EXCEPT ![id].status = "Invalid"]
        /\ events' = events \cup {OrderEvent(id, "Invalid", 0, 0)}
        /\ UNCHANGED <<ctlVars, holdings, step, tfVars, indVars>>

Next == DataTick \/ Deliver \/ Fill \/ CancelOrder \/ Reject

Spec == Init /\ [][Next]_vars

\* ---------------------------------------------------------------------
\* The same callbacks under a fair gateway: every event in flight is
\* eventually delivered and every liquidation order eventually fills. Signals
\* are long entries and RSI exits; orders are canceled on request only and
\* none is rejected.
\* ---------------------------------------------------------------------
LongInputs ==
    {in \in DataInputs :
        in.ready /\ in.close = 990 /\ in.quantity = 10 /\ in.entryOk}

LongTick == \E in \in LongInputs : Tick(in)

FairDeliver ==
    \E ev \in events : \E in \in InputsFor(ev) : DeliverEvent(ev, in)

FillLiquidation ==
    \E id \in OrderIds(orders), p \in FillPrices :
        orders[id].tag = "liquidate" /\ FillOrder(id, p)

FillOther ==
    \E id \in OrderIds(orders), p \in FillPrices :
        orders[id].tag # "liquidate" /\ FillOrder(id, p)

HonourCancel ==
    \E id \in OrderIds(orders) : orders[id].cancelReq /\ CancelActive(id)

FairNext == LongTick \/ FairDeliver \/ FillLiquidation \/ FillOther \/ HonourCancel

FairSpec ==
    Init /\ [][FairNext]_vars /\ WF_vars(FairDeliver) /\ WF_vars(FillLiquidation)

\* ---------------------------------------------------------------------
\* The same callbacks over several trades in a row: more orders, fewer
\* inputs.  Every signal is a long entry, the ATR is ready and positive, the
\* gateway accepts every submission, rejects no order and cancels on
\* request only.
\* ---------------------------------------------------------------------
MaxGenOrders == 6       \* orders submitted in one behaviour of GenSpec

GenWithinBounds(reqs) ==
    /\ Len(orders) + Submitted(orders, reqs, holdings) <= MaxGenOrders
    /\ Cardinality(Active(orders)) + Submitted(orders, reqs, holdings) <= MaxActive

GenDataInputs == {in \in LongInputs : in.rsi = 20}

GenEventInputs(ev) ==
    IF EntryFillGuard(Self, ev, orders, holdings)
    THEN {in \in EventInputs : in.atrReady /\ in.atr > 0 /\ in.stopOk /\ in.limitOk}
    ELSE {NoInputs}

GenTick ==
    \E in \in GenDataInputs :
        LET s == OnData(Self, in.ready, in.rsi, in.close, KrValue, in.quantity,
                        in.entryOk, orders, holdings)
        IN  /\ GenWithinBounds(s.reqs)
            /\ Effect("OnData", NoEvent, NoInputs, s)
            /\ UNCHANGED <<holdings, events>>

GenDeliver ==
    \E ev \in events : \E in \in GenEventInputs(ev) :
        LET s == OnOrderEvent(Self, ev, orders, holdings,
                              in.atrReady, in.atr, in.stopOk, in.limitOk)
        IN  /\ GenWithinBounds(s.reqs)
            /\ Effect("OnOrderEvent", ev, in, s)
            /\ events' = events \ {ev}
            /\ UNCHANGED holdings

GenNext == GenTick \/ GenDeliver \/ Fill \/ HonourCancel

GenSpec == Init /\ [][GenNext]_vars

\* ---------------------------------------------------------------------
\* SPYTrendFollowingStrategy as a state machine: OnData is called with any
\* of the inputs below, any number of times.
\* ---------------------------------------------------------------------
TrendInputs ==
    {in \in [has_data : BOOLEAN, ready : BOOLEAN, close : TrendCloses,
             atr : TrendAtrValues, fast_ema : FastEmaValues,
             slow_ema : {SlowEma}, fast_previous : {PreviousFastEma},
             adx : AdxValues, vix : VixValues, value : PortfolioValues,
             atr_90_ready : {FALSE}, atr_90_avg : TrendAtrValues] :
        /\ ~in.has_data => in = IdleInputs
        /\ ~in.ready => in.fast_ema = 90
        /\ trend.is_invested => (in.has_data => in.ready)}

MaxTrendDays == 8       \* OnData calls a position is followed for in TrendSpec
MaxHoldDays == 92       \* ... in HoldSpec

\* one OnData call; positions are followed for maxDays calls
TrendStep(in, maxDays) ==
    LET t == TrendOnData([trend EXCEPT !.reqs = <<>>], in)
    IN  /\ t.is_invested => t.days_since_entry <= maxDays
        /\ trend' = t
        /\ tick' = in
        /\ UNCHANGED <<mrVars, indVars>>

TrendTick == \E in \in TrendInputs : TrendStep(in, MaxTrendDays)

\* the scheduled DailyUpdate reads and logs
DailyUpdate == UNCHANGED vars

TrendNext == TrendTick \/ DailyUpdate

TrendSpec == Init /\ [][TrendNext]_vars

\* ---------------------------------------------------------------------
\* The strategy over the whole hold period, at a constant close
\* ---------------------------------------------------------------------
HoldInputs == {in \in TrendInputs : in.close = 1000}

HoldTick == \E in \in HoldInputs : TrendStep(in, MaxHoldDays)

HoldNext == HoldTick \/ DailyUpdate

HoldSpec == Init /\ [][HoldNext]_vars

\* ---------------------------------------------------------------------
\* The strategy with every input of the position size: both ADX bases, a
\* low and a high VIX, the 90-day ATR window full or not and its mean below
\* and above half the current ATR, and a portfolio value at the peak, 12%
\* and 20% below it.  The close is constant, so that the whole hold period,
\* with its reductions, is covered.
\* ---------------------------------------------------------------------
SizeAdxValues == {22, 30}
SizeVixValues == {20, 35}
SizePortfolioValues == {800, 880, 1000}
Atr90Averages == {5, 20}

\* an input the call does not read is fixed: the entry inputs while a
\* position is held, the mean of a window that is not full
SizeInputs ==
    {in \in [has_data : BOOLEAN, ready : BOOLEAN, close : {1000},
             atr : TrendAtrValues, fast_ema : FastEmaValues,
             slow_ema : {SlowEma}, fast_previous : {PreviousFastEma},
             adx : SizeAdxValues, vix : SizeVixValues,
             value : SizePortfolioValues,
             atr_90_ready : BOOLEAN, atr_90_avg : Atr90Averages] :
        /\ ~in.has_data => in = IdleInputs
        /\ ~in.ready => in.fast_ema = 90
        /\ trend.is_invested => (in.has_data => in.ready)
        /\ (~in.ready \/ trend.is_invested) =>
               /\ in.adx = IdleInputs.adx
               /\ in.vix = IdleInputs.vix
               /\ ~in.atr_90_ready
        /\ ~in.atr_90_ready => in.atr_90_avg = IdleInputs.atr_90_avg}

SizeTick == \E in \in SizeInputs : TrendStep(in, MaxHoldDays)

SizeNext == SizeTick \/ DailyUpdate

SizeSpec == Init /\ [][SizeNext]_vars

\* ---------------------------------------------------------------------
\* KernelRegression as a state machine: an indicator of a small period is
\* constructed, then updated and reset in any order.  feed records the
\* data points supplied since the construction or the last reset, the last
\* call and what it returned.
\* ---------------------------------------------------------------------
KrPeriods == 0..3
KrBandwidths == {0, 15}
KrValues == {Decimal(1000), Decimal(1100), AsFloat(1000)}
KrTimes == {1, 2}
KrInputs == [value : KrValues, time : KrTimes]

MaxUpdates == 5         \* data points supplied between two resets

KrInit ==
    /\ AlgorithmsInit
    /\ \E period \in KrPeriods, bandwidth \in KrBandwidths :
           /\ ~KernelRegressionRaises(period, bandwidth)
           /\ kr = KernelRegression(period, bandwidth)
    /\ feed = NoFeed

KrUpdate ==
    \E input_data \in KrInputs :
        /\ Len(feed.supplied) < MaxUpdates
        /\ kr' = update(kr, input_data).self
        /\ feed' = [feed EXCEPT !.supplied = Append(@, input_data),
                                !.op = "update",
                                !.ret = update(kr, input_data).ret]
        /\ UNCHANGED <<mrVars, tfVars>>

KrReset ==
    /\ kr' = reset(kr)
    /\ feed' = [supplied |-> <<>>, op |-> "reset", ret |-> FALSE,
                was_reset |-> TRUE]
    /\ UNCHANGED <<mrVars, tfVars>>

KrNext == KrUpdate \/ KrReset

KrSpec == KrInit /\ [][KrNext]_vars

\* ---------------------------------------------------------------------
\* Vocabulary of the properties
\* ---------------------------------------------------------------------
NoPair == stop_loss_order_ticket = None /\ profit_target_order_ticket = None

PairTracked == stop_loss_order_ticket # None /\ profit_target_order_ticket # None

\* the state is the one the last callback returned in: the gateway has
\* emitted no event since
AtStepEnd == step.handler # "Initialize" /\ events = step.inflight

\* the tracking fields are as the last callback found them
TrackingUnchanged ==
    <<entry_price, stop_loss_order_ticket, profit_target_order_ticket>> = step.pre

Called(op) == \E k \in 1..Len(step.reqs) : step.reqs[k].op = op

CancelRequested(id) ==
    \E k \in 1..Len(step.reqs) : step.reqs[k].op = "Cancel" /\ step.reqs[k].id = id

IsLeg(o) == o.tag \in {"ATR SL", "ATR PT"}

LiquidationPending ==
    \E i \in OrderIds(orders) : IsActive(orders[i]) /\ orders[i].tag = "liquidate"

\* the last callback processed an entry fill
EntryFillProcessed == step.handler = "OnOrderEvent" /\ step.entryFill

\* ... with a usable ATR
EntryFillPositiveAtr == EntryFillProcessed /\ step.in.atrReady /\ step.in.atr > 0

\* ... without one
SizingFailure == EntryFillProcessed /\ (~step.in.atrReady \/ step.in.atr <= 0)

\* ---------------------------------------------------------------------
\* C1: after every completed callback the stop ticket and the profit-target
\* ticket are both absent or both present; a pair is never half present.
\* ---------------------------------------------------------------------
C1_PairNeverHalfPresent ==
    (stop_loss_order_ticket = None) <=> (profit_target_order_ticket = None)

\* ---------------------------------------------------------------------
\* C2: when the Filled events of both legs of a bracket pair are delivered,
\* the one processed second finds no ticket referring to its order, makes no
\* gateway call and leaves the tracking fields as they were.
\* ---------------------------------------------------------------------
SecondFillProcessed ==
    /\ step.handler = "OnOrderEvent"
    /\ step.ev.Status = "Filled"
    /\ IsLeg(orders[step.ev.OrderId])
    /\ \E j \in OrderIds(orders) :
          /\ j # step.ev.OrderId
          /\ orders[j].group = orders[step.ev.OrderId].group
          /\ orders[j].status = "Filled"
          /\ \A e \in events : e.OrderId # j

C2_SecondBracketFillIsNoOp ==
    SecondFillProcessed =>
        /\ step.pre[2] # step.ev.OrderId
        /\ step.pre[3] # step.ev.OrderId
        /\ step.reqs = <<>>
        /\ TrackingUnchanged

C2_Witness == SecondFillProcessed

\* ---------------------------------------------------------------------
\* C3: every fatal path (ATR not ready at the entry fill, ATR not positive,
\* a failed bracket submission, an RSI exit) is eventually followed by a
\* state in which the position is flat and both tickets are absent, when
\* events are delivered fairly and liquidation orders eventually fill.
\* ---------------------------------------------------------------------
FatalPaths == {"atrNotReady", "atrInvalid", "bracketFailed", "rsiExit"}

\* the state a fatal path returns in
FatalPathTaken == AtStepEnd /\ step.path \in FatalPaths

\* an event in flight that the order bound keeps from being delivered
DeliveryCut ==
    \E ev \in events : \A in \in InputsFor(ev) :
        ~WithinBounds(OnOrderEvent(Self, ev, orders, holdings, in.atrReady,
                                   in.atr, in.stopOk, in.limitOk).reqs)

C3_FatalPathReachesFlat ==
    FatalPathTaken ~> ((holdings = 0 /\ NoPair) \/ DeliveryCut)

\* ---------------------------------------------------------------------
\* C4: whenever the controller has settled to FLAT (the position is flat, no
\* entry is pending and every event has been processed), the entry price is
\* 0 and both tickets are absent.
\* ---------------------------------------------------------------------
SettledFlat == holdings = 0 /\ ~EntryPending /\ events = {}

C4_FlatImpliesReset == SettledFlat => entry_price = 0 /\ NoPair

\* ---------------------------------------------------------------------
\* C5: when exactly one of the two bracket submissions returns a ticket, a
\* cancel is requested for the accepted leg and the position is liquidated.
\* ---------------------------------------------------------------------
PartialBracketFailure ==
    EntryFillPositiveAtr /\ step.in.stopOk # step.in.limitOk

C5_PartialFailureCancelsAcceptedLeg ==
    PartialBracketFailure =>
        /\ Called("Liquidate")
        /\ \A k \in 1..Len(step.reqs) :
              step.reqs[k].op \in {"StopMarketOrder", "LimitOrder"}
                  /\ step.reqs[k].id # None
              => CancelRequested(step.reqs[k].id)

\* ---------------------------------------------------------------------
\* C6: an entry fill processed with a positive ATR submits a stop and a limit
\* order; the callback ends with both tickets set exactly when both
\* submissions returned a ticket, and otherwise requests liquidation and
\* ends with both tickets absent and entry price 0.
\* ---------------------------------------------------------------------
C6_BracketAtomicOrNothing ==
    EntryFillPositiveAtr =>
        /\ Len(step.reqs) >= 2
        /\ step.reqs[1].op = "StopMarketOrder"
        /\ step.reqs[2].op = "LimitOrder"
        /\ (step.reqs[1].id # None) <=> step.in.stopOk
        /\ (step.reqs[2].id # None) <=> step.in.limitOk
        /\ PairTracked <=> (step.in.stopOk /\ step.in.limitOk)
        /\ PairTracked =>
              /\ stop_loss_order_ticket = step.reqs[1].id
              /\ profit_target_order_ticket = step.reqs[2].id
              /\ ~Called("Liquidate")
        /\ ~(step.in.stopOk /\ step.in.limitOk) =>
              Called("Liquidate") /\ NoPair /\ entry_price = 0

C6_Witness == EntryFillPositiveAtr /\ step.in.stopOk /\ ~step.in.limitOk

\* ---------------------------------------------------------------------
\* C7: an entry fill processed while the ATR is not ready or not positive
\* requests liquidation, submits no stop and no limit order and leaves both
\* tickets absent.
\* ---------------------------------------------------------------------
C7_SizingFailureLiquidates ==
    SizingFailure =>
        /\ Called("Liquidate")
        /\ ~Called("StopMarketOrder")
        /\ ~Called("LimitOrder")
        /\ NoPair

C7_Witness == SizingFailure /\ step.in.atrReady

\* ---------------------------------------------------------------------
\* C8: once the entry fill has been processed, a position that is open at
\* the end of a callback with no bracket pair tracked has a liquidation
\* pending.
\* ---------------------------------------------------------------------
C8_NeverOpenUnprotected ==
    (AtStepEnd /\ Invested(holdings) /\ ~PairTracked /\ ~EntryPending)
        => LiquidationPending

\* ---------------------------------------------------------------------
\* C9: the controller never settles to FLAT while a leg of a bracket pair
\* whose other leg has filled is still active and not cancel-requested.
\* ---------------------------------------------------------------------
C9_SiblingCancelledBeforeFlat ==
    (SettledFlat /\ NoPair) =>
        \A i, j \in OrderIds(orders) :
            (/\ i # j
             /\ orders[i].group = orders[j].group
             /\ orders[i].status = "Filled"
             /\ IsActive(orders[j]))
            => orders[j].cancelReq

\* ---------------------------------------------------------------------
\* C10: OnData makes no gateway call when it is called in ENTRY_PENDING (an
\* entry submitted, its fill not processed) or in OPEN_UNBRACKETED (position
\* open, no pair tracked).
\* ---------------------------------------------------------------------
CalledMidTransition ==
    /\ AtStepEnd
    /\ step.handler = "OnData"
    /\ step.pre[2] = None /\ step.pre[3] = None
    /\ \/ ~Invested(holdings) /\ step.entryPending
       \/ Invested(holdings)

C10_NoRequestMidTransition == CalledMidTransition => step.reqs = <<>>

\* ---------------------------------------------------------------------
\* C11: delivering an order event a second time, right after it was
\* processed, leaves entry price and both tickets as the first processing
\* left them.
\* ---------------------------------------------------------------------
TrackingOf(s) ==
    <<s.entry_price, s.stop_loss_order_ticket, s.profit_target_order_ticket>>

EventJustProcessed == AtStepEnd /\ step.handler = "OnOrderEvent"

C11_DuplicateDeliveryIdempotent ==
    EventJustProcessed =>
        \A in \in InputsFor(step.ev) :
            TrackingOf(OnOrderEvent(Self, step.ev, orders, holdings, in.atrReady,
                                    in.atr, in.stopOk, in.limitOk))
                = TrackingOf(Self)

\* ---------------------------------------------------------------------
\* C12: an RSI exit processed in OPEN_BRACKETED requests a cancel for each
\* bracket leg that is still active, requests liquidation and ends with both
\* tickets absent; a Filled event for either of those legs processed later
\* makes no gateway call and changes no tracking field.
\* ---------------------------------------------------------------------
ExitProcessed ==
    /\ AtStepEnd
    /\ step.handler = "OnData"
    /\ step.path = "rsiExit"
    /\ step.pre[2] # None /\ step.pre[3] # None

LateLegFillProcessed ==
    /\ step.handler = "OnOrderEvent"
    /\ step.ev.Status = "Filled"
    /\ orders[step.ev.OrderId].exited

C12_ExitWinsOverLateLegFill ==
    /\ ExitProcessed =>
          /\ Called("Liquidate")
          /\ NoPair /\ entry_price = 0
          /\ \A id \in {step.pre[2], step.pre[3]} :
                IsActive(orders[id]) => CancelRequested(id)
    /\ LateLegFillProcessed =>
          step.reqs = <<>> /\ TrackingUnchanged

C12_Witness == LateLegFillProcessed /\ IsLeg(orders[step.ev.OrderId])

\* ---------------------------------------------------------------------
\* C13: a Filled event for the tracked stop (target) order, processed while
\* both tickets are set, requests a cancel for the target (stop) order and
\* ends with both tickets absent and entry price 0; the cancel is requested
\* before the reset, so it names the order the other ticket referred to.
\* ---------------------------------------------------------------------
BracketFillProcessed ==
    /\ step.handler = "OnOrderEvent"
    /\ step.ev.Status = "Filled"
    /\ step.pre[2] # None /\ step.pre[3] # None
    /\ step.ev.OrderId \in {step.pre[2], step.pre[3]}

C13_BracketFillCancelsSibling ==
    BracketFillProcessed =>
        /\ step.ev.OrderId = step.pre[2] =>
              step.reqs = <<Req("Cancel", step.pre[3], 0, 0)>>
        /\ step.ev.OrderId = step.pre[3] =>
              step.reqs = <<Req("Cancel", step.pre[2], 0, 0)>>
        /\ NoPair
        /\ entry_price = 0

C13_Witness == BracketFillProcessed /\ step.ev.OrderId = step.pre[3]

\* ---------------------------------------------------------------------
\* C14: for an entry filled at p with ATR a > 0, a long entry submits the
\* stop at p - 1.5 a and the limit at p + 3.0 a, a short entry the stop at
\* p + 1.5 a and the limit at p - 3.0 a (p = 100, a = 2, long: 97 and 106);
\* so stop < entry < target for a long, target < entry < stop for a short.
\* Prices are in tenths.
\* ---------------------------------------------------------------------
C14_BracketPrices ==
    EntryFillPositiveAtr =>
        LET p == step.ev.FillPrice
            a == step.in.atr
            stop == step.reqs[1].price
            target == step.reqs[2].price
        IN  /\ step.reqs[1].op = "StopMarketOrder"
            /\ step.reqs[2].op = "LimitOrder"
            /\ Direction(orders[step.ev.OrderId]) = "Buy" =>
                  /\ 10 * stop = 10 * p - 15 * a
                  /\ 10 * target = 10 * p + 30 * a
                  /\ stop < p /\ p < target
                  /\ (p = 1000 /\ a = 20) => (stop = 970 /\ target = 1060)
            /\ Direction(orders[step.ev.OrderId]) = "Sell" =>
                  /\ 10 * stop = 10 * p + 15 * a
                  /\ 10 * target = 10 * p - 30 * a
                  /\ target < p /\ p < stop

C14_Witness ==
    /\ EntryFillPositiveAtr
    /\ Direction(orders[step.ev.OrderId]) = "Buy"
    /\ step.ev.FillPrice = 1000 /\ step.in.atr = 20
    /\ step.reqs[1].price = 970 /\ step.reqs[2].price = 1060

\* ---------------------------------------------------------------------
\* C15: the two bracket orders of a pair are submitted with the same
\* quantity; its magnitude is the fill quantity of the entry Filled event and
\* its sign is opposite to the entry's (negative after a Buy, positive after
\* a Sell); it comes from the event, not from the holding.
\* ---------------------------------------------------------------------
C15_ClosingQuantity ==
    EntryFillPositiveAtr =>
        /\ step.reqs[1].qty = step.reqs[2].qty
        /\ Direction(orders[step.ev.OrderId]) = "Buy" =>
              step.reqs[1].qty = -step.ev.AbsoluteFillQuantity
        /\ Direction(orders[step.ev.OrderId]) = "Sell" =>
              step.reqs[1].qty = step.ev.AbsoluteFillQuantity

\* an entry fill processed while the holding is not the filled quantity
C15_Witness ==
    /\ EntryFillPositiveAtr
    /\ AtStepEnd
    /\ Abs(holdings) # step.ev.AbsoluteFillQuantity

\* ---------------------------------------------------------------------
\* C16: while both tickets are set and no event for either leg awaits
\* delivery, both orders the tickets refer to are active at the gateway.
\* ---------------------------------------------------------------------
NoLegEventInFlight ==
    \A e \in events :
        e.OrderId \notin {stop_loss_order_ticket, profit_target_order_ticket}

C16_TrackedLegsActive ==
    (PairTracked /\ NoLegEventInFlight) =>
        /\ IsActive(orders[stop_loss_order_ticket])
        /\ IsActive(orders[profit_target_order_ticket])

\* ---------------------------------------------------------------------
\* C17: after an entry fill that could not be bracketed (a refused bracket
\* submission, ATR not ready or not positive) no stop or limit order is
\* submitted for an order that was already in the book at that moment: the
\* next submission follows the fill of an entry order submitted later.
\* ---------------------------------------------------------------------
BracketSubmitted ==
    /\ step.handler = "OnOrderEvent"
    /\ Called("StopMarketOrder") \/ Called("LimitOrder")

C17_NoResubmission == BracketSubmitted => ~step.stale

\* ---------------------------------------------------------------------
\* C18: when an Invalid, Error or Canceled event for an entry order is
\* processed and no position resulted, the callback makes no gateway call
\* and ends FLAT (no tickets, entry price 0), and an enter signal that
\* follows is honoured: OnData submits the market order.  An entry
\* submission that returns no ticket is OnData's only call and leaves the
\* tracking fields as they were.
\* ---------------------------------------------------------------------
FailedEntryProcessed ==
    /\ AtStepEnd
    /\ step.handler = "OnOrderEvent"
    /\ step.ev.Status \in {"Invalid", "Error", "Canceled"}
    /\ orders[step.ev.OrderId].tag = "entry"
    /\ ~Invested(holdings)

\* OnData, called now with an enter signal, submits the entry order
EnterSignalHonoured ==
    \A in \in DataInputs :
        (in.ready /\ in.quantity # 0) =>
            LET t == OnData(Self, in.ready, in.rsi, in.close, KrValue,
                            in.quantity, in.entryOk, orders, holdings)
                id == Ticket(Len(orders), in.entryOk)
            IN  /\ (in.rsi < rsi_oversold /\ in.close < KrValue) =>
                      t.reqs = <<Req("MarketOrder", id, in.quantity, 0)>>
                /\ (in.rsi > rsi_overbought /\ in.close > KrValue) =>
                      t.reqs = <<Req("MarketOrder", id, -in.quantity, 0)>>

\* an Invalid event in flight for an entry, taken with status Error instead
ErrorHandledAsInvalid ==
    \A e \in events :
        (/\ e.Status = "Invalid"
         /\ orders[e.OrderId].tag = "entry"
         /\ ~Invested(holdings)) =>
            LET t == OnOrderEvent(Self, [e EXCEPT !.Status = "Error"], orders,
                                  holdings, FALSE, 0, TRUE, TRUE)
            IN  t.reqs = <<>> /\ TrackingOf(t) = <<0, None, None>>

EntrySubmissionRefused ==
    /\ AtStepEnd
    /\ step.handler = "OnData"
    /\ step.path \in {"enterLong", "enterShort"}
    /\ step.reqs[1].id = None

C18_FailedEntryReturnsToFlat ==
    /\ FailedEntryProcessed =>
          /\ step.reqs = <<>>
          /\ NoPair /\ entry_price = 0
          /\ EnterSignalHonoured
    /\ ErrorHandledAsInvalid
    /\ EntrySubmissionRefused =>
          Len(step.reqs) = 1 /\ TrackingUnchanged

C18_Witness == FailedEntryProcessed /\ step.ev.Status = "Invalid"

\* ---------------------------------------------------------------------
\* C19: a Canceled event for the tracked stop (target) order clears that
\* ticket only, leaving the other ticket and the entry price as they were,
\* when the position is open; when the position is flat, both tickets and
\* the entry price end up cleared.
\* ---------------------------------------------------------------------
LegCancelProcessed ==
    /\ AtStepEnd
    /\ step.handler = "OnOrderEvent"
    /\ step.ev.Status = "Canceled"
    /\ step.ev.OrderId # None
    /\ step.ev.OrderId \in {step.pre[2], step.pre[3]}

C19_CanceledLegHandling ==
    LegCancelProcessed =>
        /\ step.reqs = <<>>
        /\ (Invested(holdings) /\ step.ev.OrderId = step.pre[2]) =>
              /\ stop_loss_order_ticket = None
              /\ profit_target_order_ticket = step.pre[3]
              /\ entry_price = step.pre[1]
        /\ (Invested(holdings) /\ step.ev.OrderId = step.pre[3]) =>
              /\ profit_target_order_ticket = None
              /\ stop_loss_order_ticket = step.pre[2]
              /\ entry_price = step.pre[1]
        /\ ~Invested(holdings) => NoPair /\ entry_price = 0

C19_Witness ==
    /\ LegCancelProcessed
    /\ Invested(holdings)
    /\ step.ev.OrderId = step.pre[2]
    /\ step.pre[3] # None

\* ---------------------------------------------------------------------
\* C20: an order event that is neither an entry fill passing the guard, nor
\* a Filled or Canceled event for a tracked stop or target, nor an Invalid
\* or Error event for an entry order, leaves entry price and both tickets
\* unchanged and makes no gateway call; so does a CancelPending event for
\* any active order.
\* ---------------------------------------------------------------------
UnmodeledEventProcessed ==
    /\ step.handler = "OnOrderEvent"
    /\ ~step.entryFill
    /\ ~(/\ step.ev.Status \in {"Filled", "Canceled"}
         /\ step.ev.OrderId \in {step.pre[2], step.pre[3]})
    /\ ~(/\ step.ev.Status \in {"Invalid", "Error"}
         /\ orders[step.ev.OrderId].tag = "entry")

CancelPendingIsNoOp ==
    \A i \in Active(orders) :
        LET t == OnOrderEvent(Self, OrderEvent(i, "CancelPending", 0, 0), orders,
                              holdings, FALSE, 0, TRUE, TRUE)
        IN  t.reqs = <<>> /\ TrackingOf(t) = TrackingOf(Self)

C20_UnmodeledEventsAreNoOps ==
    /\ UnmodeledEventProcessed => (step.reqs = <<>> /\ TrackingUnchanged)
    /\ CancelPendingIsNoOp

\* ---------------------------------------------------------------------
\* C21: OnOrderEvent submits a stop or a limit order only for a Filled event
\* of a market order, processed while both tickets are absent and the
\* position has the direction of the order (Buy and long, Sell and short).
\* A Filled event for an entry order processed while a pair is tracked makes
\* no gateway call and changes no tracking field, and so would the Filled
\* event of any filled market order delivered while a pair is tracked.  No
\* callback that starts with a pair tracked submits a stop or a limit order,
\* so the tracked pair is never replaced by another.
\* ---------------------------------------------------------------------
EntryFillWhileBracketed ==
    /\ step.handler = "OnOrderEvent"
    /\ step.ev.Status = "Filled"
    /\ orders[step.ev.OrderId].tag = "entry"
    /\ step.pre[2] # None /\ step.pre[3] # None

\* the Filled event of a filled market order, delivered (again) now
StaleEntryFillIsNoOp ==
    \A i \in OrderIds(orders), p \in FillPrices, in \in EventInputs :
        (orders[i].type = "Market" /\ orders[i].status = "Filled") =>
            LET t == OnOrderEvent(Self, OrderEvent(i, "Filled", p, Abs(orders[i].qty)),
                                  orders, holdings, in.atrReady, in.atr,
                                  in.stopOk, in.limitOk)
            IN  t.reqs = <<>> /\ TrackingOf(t) = TrackingOf(Self)

EntrySubmitted ==
    /\ AtStepEnd
    /\ step.handler = "OnData"
    /\ Called("MarketOrder")

EntrySubmittedFromFlat ==
    EntrySubmitted =>
        /\ holdings = 0
        /\ Len(step.reqs) = 1
        /\ TrackingUnchanged

\* the gateway fills an entry order into an open position of its direction
EntryFillsIntoOpenPosition ==
    \E i \in OrderIds(orders) :
        /\ orders[i].tag = "entry"
        /\ IsActive(orders[i])
        /\ Len(orders') = Len(orders)
        /\ orders'[i].status = "Filled"
        /\ holdings * orders[i].qty > 0

C22_EntryOnlyFromFlat ==
    /\ []EntrySubmittedFromFlat
    /\ [][~EntryFillsIntoOpenPosition]_vars

\* ---------------------------------------------------------------------
\* C23: an OnData call that submits an entry market order leaves the entry
\* price and both tickets as they were; the entry price becomes non-zero
\* only in a callback that processes a Filled event for an entry order.
\* ---------------------------------------------------------------------
EntryPriceSet == step.pre[1] = 0 /\ entry_price # 0

C23_EntryPriceSetByEntryFillOnly ==
    /\ EntrySubmitted => TrackingUnchanged
    /\ EntryPriceSet =>
          /\ step.handler = "OnOrderEvent"
          /\ step.ev.Status = "Filled"
          /\ orders[step.ev.OrderId].tag = "entry"

\* ---------------------------------------------------------------------
\* C24: the Filled event of a liquidation order is never taken for an entry
\* fill: processing it sets no entry price and submits no stop and no limit
\* order, also when a bracket leg filled along with the liquidation and the
\* position flipped to the other side.
\* ---------------------------------------------------------------------
LiquidationFillProcessed ==
    /\ step.handler = "OnOrderEvent"
    /\ step.ev.Status = "Filled"
    /\ orders[step.ev.OrderId].tag = "liquidate"

\* no Filled event of a liquidation order awaiting delivery would pass the
\* entry conditions of OnOrderEvent
NoLiquidationFillPassesGuard ==
    \A e \in events :
        (e.Status = "Filled" /\ orders[e.OrderId].tag = "liquidate") =>
            ~EntryFillGuard(Self, e, orders, holdings)

C24_LiquidationFillIsNotAnEntry ==
    /\ LiquidationFillProcessed =>
          /\ ~step.entryFill
          /\ entry_price = step.pre[1]
          /\ ~Called("StopMarketOrder")
          /\ ~Called("LimitOrder")
    /\ NoLiquidationFillPassesGuard

\* ---------------------------------------------------------------------
\* C25: no orphaned bracket orders.  When a callback clears a ticket, the
\* order it referred to has terminated or has a cancel requested; no stop or
\* limit order is active at the gateway while no ticket refers to it and no
\* cancel has been requested for it.
\* ---------------------------------------------------------------------
Orphaned(i) ==
    /\ IsLeg(orders[i])
    /\ IsActive(orders[i])
    /\ i \notin {stop_loss_order_ticket, profit_target_order_ticket}
    /\ ~orders[i].cancelReq

\* the tickets the last callback cleared
TicketsCleared ==
    {step.pre[k] : k \in {2, 3}} \ {None, stop_loss_order_ticket,
                                    profit_target_order_ticket}

C25_NoOrphanedBracketOrders ==
    /\ \A i \in OrderIds(orders) : ~Orphaned(i)
    /\ AtStepEnd =>
          \A i \in TicketsCleared : ~IsActive(orders[i]) \/ orders[i].cancelReq

\* ---------------------------------------------------------------------
\* C26: bracket generations are isolated.  A Filled or Canceled event for a
\* leg of an earlier pair, processed while a later pair is tracked, makes no
\* gateway call and leaves both tickets and the entry price as they were.
\* ---------------------------------------------------------------------
EarlierLegEventProcessed ==
    /\ step.handler = "OnOrderEvent"
    /\ step.ev.Status \in {"Filled", "Canceled"}
    /\ IsLeg(orders[step.ev.OrderId])
    /\ step.pre[2] # None /\ step.pre[3] # None
    /\ step.ev.OrderId < step.pre[2] /\ step.ev.OrderId < step.pre[3]

C26_GenerationsIsolated ==
    EarlierLegEventProcessed => (step.reqs = <<>> /\ TrackingUnchanged)

\* ---------------------------------------------------------------------
\* Vocabulary of the SPYTrendFollowingStrategy properties
\* ---------------------------------------------------------------------

\* the step is an OnData call with data and ready indicators, made while
\* invested and returning invested
InvestedTick ==
    /\ trend.is_invested
    /\ tick'.has_data /\ tick'.ready
    /\ trend'.days_since_entry = trend.days_since_entry + 1
    /\ trend'.is_invested

\* ---------------------------------------------------------------------
\* C27: trailing stop of SPYTrendFollowingStrategy.  After an OnData call
\* made while invested whose close exceeds the highest close since entry,
\* and which does not exit, trailing_stop_price >= close - 3 ATR.
\* ---------------------------------------------------------------------
NewHighTick == InvestedTick /\ tick'.close > trend.high_since_entry

C27_TrailingStopRaised ==
    [][NewHighTick =>
          trend'.trailing_stop_price
              >= tick'.close - trailing_stop_multiplier * tick'.atr]_vars

\* ---------------------------------------------------------------------
\* C28: scale-in of SPYTrendFollowingStrategy.  An OnData call made while
\* invested, not scaled in, with position_size < 1.0, more than 5 days after
\* the entry and with the 20-value window full, whose close is above the 20
\* closes before it, ends scaled in with the position size raised by 0.1 (at
\* most 1.0); once scaled in, a position is not scaled again.
\* ---------------------------------------------------------------------
ScaleInTick ==
    /\ InvestedTick
    /\ ~trend.scaled_in
    /\ trend.position_size < Unit
    /\ trend'.days_since_entry > scaling_days
    /\ WindowIsReady(trend.highest_price_20d)
    /\ tick'.close > SetMax(WindowValues(trend.highest_price_20d))

ScaledOnce ==
    (trend.is_invested /\ trend.scaled_in /\ trend'.is_invested) =>
        /\ trend'.scaled_in
        /\ trend'.position_size <= trend.position_size

C28_ScaleInOnNewHigh ==
    [][/\ ScaleInTick =>
             /\ trend'.scaled_in
             /\ trend'.position_size
                    = Min(Unit, trend.position_size + additional_size)
       /\ ScaledOnce]_vars

\* ---------------------------------------------------------------------
\* C29: maximum hold of SPYTrendFollowingStrategy.  After every OnData call
\* made with ready indicators, is_invested implies days_since_entry <= 90;
\* the call that takes days_since_entry beyond 90 liquidates the position.
\* ---------------------------------------------------------------------
AfterReadyTick == tick.has_data /\ tick.ready

\* the step is the OnData call that takes a position beyond the hold period
MaxHoldTick ==
    /\ trend.is_invested
    /\ trend.days_since_entry = max_hold_days
    /\ tick'.has_data
    /\ trend' # trend

C29_MaximumHold ==
    /\ [](AfterReadyTick /\ trend.is_invested
              => trend.days_since_entry <= max_hold_days)
    /\ [][MaxHoldTick =>
              /\ ~trend'.is_invested
              /\ trend'.reqs = <<<<"Liquidate", 0>>>>]_vars

\* a position exited by the hold period alone
C29_Witness ==
    /\ AfterReadyTick
    /\ ~trend.is_invested
    /\ trend.days_since_entry = max_hold_days + 1
    /\ tick.fast_ema > tick.slow_ema
    /\ trend.reqs = <<<<"Liquidate", 0>>>>

\* ---------------------------------------------------------------------
\* C30: stop monotonicity of SPYTrendFollowingStrategy.  While a position
\* is held, trailing_stop_price does not decrease from one OnData call to
\* the next and is never below the initial stop set at entry; whatever the
\* close and the ATR, UpdateStopLevels returns a stop that is not lower.
\* ---------------------------------------------------------------------
StopAtrValues == {20, 60}

StopNotLowered ==
    (trend.is_invested /\ trend'.is_invested) =>
        /\ trend'.trailing_stop_price >= trend.trailing_stop_price
        /\ trend'.initial_stop_price = trend.initial_stop_price

UpdateNeverLowers ==
    \A c \in TrendCloses, a \in StopAtrValues :
        LET t == UpdateStopLevels(trend, c, a)
        IN  t.is_invested =>
                /\ t.trailing_stop_price >= trend.trailing_stop_price
                /\ t.initial_stop_price = trend.initial_stop_price

C30_StopMonotone ==
    /\ [](trend.is_invested =>
              /\ trend.trailing_stop_price >= trend.initial_stop_price
              /\ UpdateNeverLowers)
    /\ [][StopNotLowered]_vars

\* a position whose price has moved above the entry
C30_Witness ==
    /\ trend.is_invested
    /\ trend.days_since_entry > 0
    /\ trend.high_since_entry > trend.entry_price

\* ---------------------------------------------------------------------
\* C31: state consistency of SPYTrendFollowingStrategy.  After every OnData
\* call: when is_invested is false, position_size, initial_stop_price and
\* trailing_stop_price are 0 and scaled_in is false; when is_invested is
\* true, 0 < position_size <= 1.0.  ExecuteEntry called while invested and
\* ExecuteExit called while flat change nothing and request nothing.
\* ---------------------------------------------------------------------
FlatIsReset ==
    ~trend.is_invested =>
        /\ trend.position_size = 0
        /\ trend.initial_stop_price = 0
        /\ trend.trailing_stop_price = 0
        /\ ~trend.scaled_in

InvestedHasSize ==
    trend.is_invested =>
        /\ 0 < trend.position_size
        /\ trend.position_size <= Unit

\* the sizes CalculatePositionSize returns in the state, for every input
PositionSizes ==
    {CalculatePositionSize(trend, adx, vix, r, a, avg) :
         adx \in SizeAdxValues, vix \in SizeVixValues, r \in BOOLEAN,
         a \in TrendAtrValues, avg \in Atr90Averages}

EntryWhileInvestedIsNoOp ==
    trend.is_invested =>
        \A p \in PositionSizes, c \in TrendCloses, a \in TrendAtrValues :
            ExecuteEntry(trend, p, c, a) = trend

ExitWhileFlatIsNoOp == ~trend.is_invested => ExecuteExit(trend) = trend

C31_StateConsistent ==
    /\ FlatIsReset
    /\ InvestedHasSize
    /\ \A p \in PositionSizes : 0 < p /\ p <= Unit
    /\ EntryWhileInvestedIsNoOp
    /\ ExitWhileFlatIsNoOp

\* a position entered in a drawdown at the smallest size, in the call that
\* reduces it for the lack of a new high
C31_Witness ==
    /\ trend.is_invested
    /\ trend.days_since_new_high > no_new_high_days
    /\ trend.position_size < 875
    /\ trend.reqs = <<<<"SetHoldings", trend.position_size>>>>

\* ---------------------------------------------------------------------
\* C32: readiness of KernelRegression.  For a period L >= 1 and n data
\* points supplied since the construction or the last reset: update returns
\* True, and is_ready holds, exactly when n >= L; the window holds at most L
\* values, namely the floats of the most recent min(n, L) inputs, in order;
\* reset leaves the fields as __init__ set them, not ready, and from there
\* every input sequence gives the update results it gives on a new
\* indicator.
\* ---------------------------------------------------------------------
InitFields ==
    {"period", "bandwidth", "warm_up_period", "value", "_window", "_indices",
     "_current_index"}

\* the fields of self are as __init__ set them
AsConstructed(self) ==
    \A f \in InitFields :
        self[f] = KernelRegression(self.period, self.bandwidth)[f]

ReadyExactlyWhenFull ==
    /\ is_ready(kr) <=> Len(feed.supplied) >= kr.period
    /\ feed.op = "update" => (feed.ret <=> Len(feed.supplied) >= kr.period)

WindowHoldsMostRecent ==
    LET n == Len(feed.supplied)
        m == Min(n, kr.period)
    IN  /\ Len(kr._window) <= kr.period
        /\ kr._window = [i \in 1..m |-> float(feed.supplied[n - m + i].value)]

\* the results a new indicator of the same period and bandwidth gives when
\* it is fed what was supplied since the last reset
FreshResults ==
    UpdateResults(KernelRegression(kr.period, kr.bandwidth), feed.supplied)

ResetIsInitial ==
    /\ feed.op = "reset" => AsConstructed(kr) /\ ~is_ready(kr)
    /\ AsConstructed(reset(kr)) /\ ~is_ready(reset(kr))
    /\ feed.op = "update" =>
           FreshResults[Len(feed.supplied)]
               = [ret |-> feed.ret, value |-> kr.value]

C32_KernelRegressionReadiness ==
    /\ kr.period >= 1
    /\ ReadyExactlyWhenFull
    /\ WindowHoldsMostRecent
    /\ ResetIsInitial

\* after a reset, an indicator of period 2 or 3 that has dropped a value
\* other than the ones it holds
C32_Witness ==
    /\ feed.was_reset
    /\ feed.op = "update"
    /\ feed.ret
    /\ kr.period > 1
    /\ Len(feed.supplied) > kr.period
    /\ \A i \in 1..Len(kr._window) :
           kr._window[i] # float(feed.supplied[1].value)

====
